---- MODULE Spec2Model ----
(***************************************************************************)
(* gcbrickwork: the table codec (JMP.py) and the parameter codec (PRM.py). *)
(*                                                                         *)
(* A buffer (io.BytesIO) is a sequence of bytes; offset o is index o + 1.  *)
(* A non-negative Python int that takes part in bit operations (a 32-bit   *)
(* word, a bitmask, a hash, a colour channel) is the set of the positions  *)
(* of its one bits, so that <<, >>, & and | are exact at every width; an   *)
(* int used in offset arithmetic (a count, a size, a start byte) is an     *)
(* integer.  Text is the sequence of its character codes.                  *)
(***************************************************************************)
EXTENDS Integers, Sequences, FiniteSets, TLC

VARIABLES
    origin,            \* "load": the table comes from load_jmp; "init": from JMP(...); "prm": parameter files
    jmp_data,          \* the buffer handed to JMP.load_jmp
    pc,                \* position of the running load_jmp
    loc,               \* the locals of the running load_jmp
    table,             \* the JMP instance: fields, data_entries
    local_data,        \* what create_new_jmp returned
    pass,              \* 1: loading the source buffer, 2: loading create_new_jmp's buffer
    first,             \* the source buffer and the instance of pass 1
    PRM_data_entries,  \* PRM.data_entries, the class attribute
    prm,               \* the PRM instances: data, and what their last call did
    prm_calls          \* number of PRM method calls made so far

vars == <<origin, jmp_data, pc, loc, table, local_data, pass, first,
          PRM_data_entries, prm, prm_calls>>

jmpVars == <<jmp_data, pc, loc, table, local_data, pass, first>>
prmVars == <<PRM_data_entries, prm, prm_calls>>

----------------------------------------------------------------------------
(* Bounds *)

MaxRows == 2
MaxCalls == 3
MaxEntries == 2

----------------------------------------------------------------------------
(* Program constants *)

JMP_HEADER_SIZE == 12
JMP_STRING_BYTE_LENGTH == 32
JMP_single_entry_size == 0

JMPType_Int == 0
JMPType_Str == 1
JMPType_Flt == 2
JMPType == {JMPType_Int, JMPType_Str, JMPType_Flt}

PRMType_Byte == 1
PRMType_Short == 2
PRMType_Number == 4
PRMType_Vector == 12
PRMType_Color == 16

----------------------------------------------------------------------------
(* Bytes_Helper: big-endian primitives over a buffer *)

Min(a, b) == IF a < b THEN a ELSE b
Max(a, b) == IF a > b THEN a ELSE b

RECURSIVE IntOf(_)
IntOf(v) == IF v = {} THEN 0
            ELSE LET i == CHOOSE i \in v : TRUE IN 2^i + IntOf(v \ {i})

BitsOf(n) == {i \in 0..30 : (n \div 2^i) % 2 = 1}

BitsOfByte(b, base) == {base + j : j \in {k \in 0..7 : (b \div 2^k) % 2 = 1}}

unpack_uint(bytes) ==
    UNION {BitsOfByte(bytes[k], 8 * (Len(bytes) - k)) : k \in 1..Len(bytes)}

pack_uint(v, n) ==
    [k \in 1..n |-> IntOf({j \in 0..7 : 8 * (n - k) + j \in v})]

Fits(v, n) == \A i \in v : i < 8 * n

unpack_sint(bytes) ==
    LET v == unpack_uint(bytes)
        top == 8 * Len(bytes) - 1
    IN  IF top \in v THEN 0 - IntOf((0..(top - 1)) \ v) - 1 ELSE IntOf(v)

pack_sint(x, n) ==
    IF x >= 0 THEN pack_uint(BitsOf(x), n)
    ELSE pack_uint((0..(8 * n - 1)) \ BitsOf(0 - x - 1), n)

\* data.seek(offset); data.read(n): at most n bytes, fewer at the end; a
\* negative n reads to the end of the buffer.
ReadAt(buf, offset, n) ==
    IF n < 0 THEN SubSeq(buf, offset + 1, Len(buf))
    ELSE SubSeq(buf, offset + 1, Min(offset + n, Len(buf)))

\* A fixed-width read fails when fewer bytes remain than the width requires.
CanRead(buf, offset, n) == offset >= 0 /\ offset + n <= Len(buf)

read_u8(buf, offset) == IntOf(unpack_uint(ReadAt(buf, offset, 1)))
read_u16(buf, offset) == IntOf(unpack_uint(ReadAt(buf, offset, 2)))
read_u32(buf, offset) == unpack_uint(ReadAt(buf, offset, 4))
read_s32(buf, offset) == unpack_sint(ReadAt(buf, offset, 4))
read_float(buf, offset) == unpack_uint(ReadAt(buf, offset, 4))

RECURSIVE UntilNull(_)
UntilNull(bytes) ==
    IF bytes = <<>> \/ Head(bytes) = 0 THEN <<>>
    ELSE <<Head(bytes)>> \o UntilNull(Tail(bytes))

read_str_until_null_character(buf, offset, length) ==
    UntilNull(ReadAt(buf, offset, length))

\* data.seek(offset); data.write(bytes): the buffer grows, zero-filled, when
\* the write reaches past its end; nothing else changes.
WriteAt(buf, offset, bytes) ==
    IF bytes = <<>> THEN buf
    ELSE [i \in 1..Max(Len(buf), offset + Len(bytes)) |->
            IF i > offset /\ i <= offset + Len(bytes) THEN bytes[i - offset]
            ELSE IF i <= Len(buf) THEN buf[i] ELSE 0]

write_u8(buf, offset, x) == WriteAt(buf, offset, pack_uint(BitsOf(x), 1))
write_u16(buf, offset, x) == WriteAt(buf, offset, pack_uint(BitsOf(x), 2))
write_u32(buf, offset, v) == WriteAt(buf, offset, pack_uint(v, 4))
write_s32(buf, offset, x) == WriteAt(buf, offset, pack_sint(x, 4))
write_float(buf, offset, v) == WriteAt(buf, offset, pack_uint(v, 4))

\* text is no longer than length here (a longer text is a ValueTooLong error,
\* which the callers test for or rule out).
write_str(buf, offset, text, length, pad) ==
    WriteAt(buf, offset,
            [i \in 1..length |-> IF i <= Len(text) THEN text[i] ELSE pad])

----------------------------------------------------------------------------
(* Python int operators on one-bit sets *)

Shl(v, s) == {i + s : i \in v}
Shr(v, s) == {i - s : i \in {j \in v : j >= s}}
BitAnd(v, w) == v \cap w
BitOr(v, w) == v \cup w

----------------------------------------------------------------------------
(* JMP.py: field descriptors and row values *)

\* JMPFieldHeader.  hashable: whether the object can key a dict.  The class
\* is a @dataclass with the default eq=True and no __hash__ of its own, so
\* its instances are unhashable; a caller's own subclass may be hashable.
JMPFieldHeader(jmp_hash, jmp_bitmask, jmp_startbyte, jmp_shiftbyte, jmp_data_type) ==
    [field_hash |-> jmp_hash, field_bitmask |-> jmp_bitmask,
     field_start_byte |-> jmp_startbyte, field_shift_byte |-> jmp_shiftbyte,
     field_data_type |-> jmp_data_type, hashable |-> FALSE]

\* A value of a row: int (num: its bits), str (str: its characters) or
\* float (num: the bits of its 32-bit encoding).
IntVal(v) == [type |-> JMPType_Int, num |-> v, str |-> <<>>]
StrVal(t) == [type |-> JMPType_Str, num |-> {}, str |-> t]
FltVal(v) == [type |-> JMPType_Flt, num |-> v, str |-> <<>>]

NoTable == [made |-> FALSE, fields |-> <<>>, data_entries |-> <<>>]

\* JMP.__init__
JMP_init(input_fields, data_entries) ==
    [made |-> TRUE, fields |-> input_fields, data_entries |-> data_entries]

----------------------------------------------------------------------------
(* JMP.load_jmp and its helpers *)

NoLoc ==
    [original_file_size |-> 0, data_entry_count |-> 0, field_count |-> 0,
     header_block_size |-> 0, single_entry_size |-> 0,
     fields |-> <<>>, entries |-> <<>>, error |-> "",
     current_val |-> {}, value |-> IntVal({})]

\* The condition of lines 85-86; header_len is len(header_block_bytes).
HeaderSizeMismatch(header_len, field_count, header_block_size, original_file_size) ==
    \/ header_len % JMP_HEADER_SIZE # 0
    \/ header_len # JMP_HEADER_SIZE * field_count
    \/ header_block_size > original_file_size

\* Line 92 with the header block left out of the sum.
EntrySizeOverflowNoHeader(header_block_size, single_entry_size, data_entry_count, original_file_size) ==
    (single_entry_size * data_entry_count) > original_file_size

\* The condition of line 92.
EntrySizeOverflow(header_block_size, single_entry_size, data_entry_count, original_file_size) ==
    header_block_size + (single_entry_size * data_entry_count) > original_file_size

RECURSIVE load_headers(_, _, _, _)
load_headers(header_data, field_count, k, field_headers) ==
    LET current_offset == 16 + JMP_HEADER_SIZE * k
    IN  IF k >= field_count THEN [error |-> "", fields |-> field_headers]
        ELSE IF ~CanRead(header_data, current_offset, JMP_HEADER_SIZE)
        THEN [error |-> "TruncatedBuffer", fields |-> field_headers]
        ELSE LET entry_hash == read_u32(header_data, current_offset)
                 entry_bitmask == read_u32(header_data, current_offset + 4)
                 entry_startbyte == read_u16(header_data, current_offset + 8)
                 entry_shiftbyte == read_u8(header_data, current_offset + 10)
                 entry_type == read_u8(header_data, current_offset + 11)
             IN  IF entry_type \notin JMPType
                 THEN [error |-> "ValueError", fields |-> field_headers]
                 ELSE load_headers(header_data, field_count, k + 1,
                        Append(field_headers,
                               JMPFieldHeader(entry_hash, entry_bitmask, entry_startbyte,
                                              entry_shiftbyte, entry_type)))

\* The value lines 196-204 compute for one field of the row at data_entry_start.
load_value(entry_data, data_entry_start, jmp_header) ==
    LET at == data_entry_start + jmp_header.field_start_byte
    IN  CASE jmp_header.field_data_type = JMPType_Int ->
               IF ~CanRead(entry_data, at, 4)
               THEN [error |-> "TruncatedBuffer", current_val |-> {}, value |-> IntVal({})]
               ELSE LET current_val == read_u32(entry_data, at)
                    IN  [error |-> "", current_val |-> current_val,
                         value |-> IntVal(BitAnd(Shr(current_val, jmp_header.field_shift_byte),
                                                 jmp_header.field_bitmask))]
          [] jmp_header.field_data_type = JMPType_Str ->
               [error |-> "", current_val |-> {},
                value |-> StrVal(read_str_until_null_character(entry_data, at,
                                                               JMP_STRING_BYTE_LENGTH))]
          [] OTHER ->
               IF ~CanRead(entry_data, at, 4)
               THEN [error |-> "TruncatedBuffer", current_val |-> {}, value |-> IntVal({})]
               ELSE [error |-> "", current_val |-> {},
                     value |-> FltVal(read_float(entry_data, at))]

\* One pass of the loop body of _load_entries (lines 192-205): new_entry
\* gains one item per field, in field order; new_entry[jmp_header] = ...
\* raises TypeError when jmp_header is unhashable.
RECURSIVE load_entry(_, _, _, _, _)
load_entry(entry_data, data_entry_start, field_list, k, new_entry) ==
    IF k > Len(field_list)
    THEN [error |-> "", new_entry |-> new_entry, current_val |-> {}, value |-> IntVal({})]
    ELSE LET jmp_header == field_list[k]
             got == load_value(entry_data, data_entry_start, jmp_header)
         IN  IF got.error # ""
             THEN [error |-> got.error, new_entry |-> new_entry,
                   current_val |-> got.current_val, value |-> got.value]
             ELSE IF ~jmp_header.hashable
             THEN [error |-> "TypeError", new_entry |-> new_entry,
                   current_val |-> got.current_val, value |-> got.value]
             ELSE load_entry(entry_data, data_entry_start, field_list, k + 1,
                             Append(new_entry, [key |-> jmp_header, val |-> got.value]))

Fail(reason) == /\ pc' = "Failed"
                /\ loc' = [loc EXCEPT !.error = reason]

\* Lines 75-81: the file size and the 16-byte preamble.
ReadPreamble ==
    /\ pc = "Start"
    /\ IF ~CanRead(jmp_data, 0, 16)
       THEN Fail("TruncatedBuffer")
       ELSE /\ pc' = "PreambleRead"
            /\ loc' = [NoLoc EXCEPT
                         !.original_file_size = Len(jmp_data),
                         !.data_entry_count = read_s32(jmp_data, 0),
                         !.field_count = read_s32(jmp_data, 4),
                         !.header_block_size = IntOf(read_u32(jmp_data, 8)),
                         !.single_entry_size = IntOf(read_u32(jmp_data, 12))]
    /\ UNCHANGED <<origin, jmp_data, table, local_data, pass, first>>
    /\ UNCHANGED prmVars

\* Lines 84-88: jmp_data.read(header_block_size - 16) continues at offset 16,
\* where the read of the preamble left the buffer's position.
ValidateHeader ==
    /\ pc = "PreambleRead"
    /\ LET header_block_bytes == ReadAt(jmp_data, 16, loc.header_block_size - 16)
       IN  IF HeaderSizeMismatch(Len(header_block_bytes), loc.field_count,
                                 loc.header_block_size, loc.original_file_size)
           THEN Fail("JMPFileError:header")
           ELSE pc' = "HeaderValidated" /\ UNCHANGED loc
    /\ UNCHANGED <<origin, jmp_data, table, local_data, pass, first>>
    /\ UNCHANGED prmVars

\* Line 89.
LoadHeaders ==
    /\ pc = "HeaderValidated"
    /\ LET got == load_headers(jmp_data, loc.field_count, 0, <<>>)
       IN  IF got.error # ""
           THEN Fail(got.error)
           ELSE /\ pc' = "FieldsLoaded"
                /\ loc' = [loc EXCEPT !.fields = got.fields]
    /\ UNCHANGED <<origin, jmp_data, table, local_data, pass, first>>
    /\ UNCHANGED prmVars

\* Lines 92-94.
CheckEntries ==
    /\ pc = "FieldsLoaded"
    /\ IF EntrySizeOverflow(loc.header_block_size, loc.single_entry_size,
                            loc.data_entry_count, loc.original_file_size)
       THEN Fail("JMPFileError:entries")
       ELSE pc' = "EntriesChecked" /\ UNCHANGED loc
    /\ UNCHANGED <<origin, jmp_data, table, local_data, pass, first>>
    /\ UNCHANGED prmVars

\* Line 95, one row of _load_entries per step.
LoadEntry ==
    /\ pc = "EntriesChecked"
    /\ Len(loc.entries) < loc.data_entry_count
    /\ LET current_entry == Len(loc.entries)
           data_entry_start == (current_entry * loc.single_entry_size) + loc.header_block_size
           got == load_entry(jmp_data, data_entry_start, loc.fields, 1, <<>>)
       IN  IF got.error # ""
           THEN /\ pc' = "Failed"
                /\ loc' = [loc EXCEPT !.error = got.error,
                                      !.current_val = got.current_val,
                                      !.value = got.value]
           ELSE /\ pc' = pc
                /\ loc' = [loc EXCEPT !.entries = Append(@, got.new_entry)]
    /\ UNCHANGED <<origin, jmp_data, table, local_data, pass, first>>
    /\ UNCHANGED prmVars

\* Line 97, once range(entry_count) is exhausted.
ReturnTable ==
    /\ pc = "EntriesChecked"
    /\ Len(loc.entries) >= loc.data_entry_count
    /\ pc' = "Ready"
    /\ table' = JMP_init(loc.fields, loc.entries)
    /\ UNCHANGED <<origin, jmp_data, loc, local_data, pass, first>>
    /\ UNCHANGED prmVars

----------------------------------------------------------------------------
(* JMP.create_new_jmp and its helpers *)

\* Lines 139-148: one 12-byte descriptor per field, from offset 16.
RECURSIVE update_headers(_, _, _)
update_headers(buf, fields, k) ==
    IF k > Len(fields) THEN buf
    ELSE LET jmp_header == fields[k]
             current_offset == 16 + JMP_HEADER_SIZE * (k - 1)
             b1 == write_u32(buf, current_offset, jmp_header.field_hash)
             b2 == write_u32(b1, current_offset + 4, jmp_header.field_bitmask)
             b3 == write_u16(b2, current_offset + 8, jmp_header.field_start_byte)
             b4 == write_u8(b3, current_offset + 10, jmp_header.field_shift_byte)
             b5 == write_u8(b4, current_offset + 11, jmp_header.field_data_type)
         IN  update_headers(b5, fields, k + 1)

\* Line 156: the word written for an Int value.
new_val(val, key) == BitOr(Shl(val, key.field_shift_byte), key.field_bitmask)

\* Lines 154-161: one item of a row.  A failed write leaves an error.
update_item(out, current_offset, key, val) ==
    LET at == current_offset + key.field_start_byte
    IN  CASE key.field_data_type = JMPType_Int ->
               IF Fits(new_val(val.num, key), 4)
               THEN [error |-> "", buf |-> write_u32(out.buf, at, new_val(val.num, key))]
               ELSE [error |-> "struct.error", buf |-> out.buf]
          [] key.field_data_type = JMPType_Str ->
               IF Len(val.str) <= JMP_STRING_BYTE_LENGTH
               THEN [error |-> "", buf |-> write_str(out.buf, at, val.str,
                                                      JMP_STRING_BYTE_LENGTH, 0)]
               ELSE [error |-> "ValueTooLong", buf |-> out.buf]
          [] OTHER ->
               [error |-> "", buf |-> write_float(out.buf, at, val.num)]

\* Lines 152-162: rows in order, the items of a row in order, the offset
\* advanced by self.single_entry_size after each row.
RECURSIVE update_entries(_, _, _, _, _)
update_entries(out, data_entries, current_offset, r, k) ==
    IF out.error # "" \/ r > Len(data_entries) THEN out
    ELSE IF k > Len(data_entries[r])
    THEN update_entries(out, data_entries, current_offset + JMP_single_entry_size, r + 1, 1)
    ELSE update_entries(update_item(out, current_offset, data_entries[r][k].key,
                                    data_entries[r][k].val),
                        data_entries, current_offset, r, k + 1)

\* Lines 120-128: the buffer before the padding.
unpadded_jmp(self) ==
    LET new_header_size == Len(self.fields) * JMP_HEADER_SIZE + 16
        b1 == write_s32(<<>>, 0, Len(self.data_entries))
        b2 == write_s32(b1, 4, Len(self.fields))
        b3 == write_u32(b2, 8, BitsOf(new_header_size))
        b4 == write_u32(b3, 12, BitsOf(JMP_single_entry_size))
        b5 == update_headers(b4, self.fields, 1)
    IN  update_entries([error |-> "", buf |-> b5], self.data_entries, new_header_size, 1, 1)

\* Lines 131-134: write_str(local_data, curr_length, "", curr_length % 32, "@").
pad_jmp(buf) ==
    LET curr_length == Len(buf)
    IN  IF curr_length % 32 > 0
        THEN write_str(buf, curr_length, <<>>, curr_length % 32, 64)
        ELSE buf

NoData == [made |-> FALSE, error |-> "", buf |-> <<>>]

create_new_jmp ==
    /\ table.made
    /\ pass = 1
    /\ ~local_data.made
    /\ LET out == unpadded_jmp(table)
       IN  local_data' = IF out.error # ""
                         THEN [made |-> TRUE, error |-> out.error, buf |-> <<>>]
                         ELSE [made |-> TRUE, error |-> "", buf |-> pad_jmp(out.buf)]
    /\ UNCHANGED <<origin, jmp_data, pc, loc, table, pass, first>>
    /\ UNCHANGED prmVars

\* load_jmp called on the buffer create_new_jmp returned.
Reload ==
    /\ pass = 1
    /\ local_data.made
    /\ local_data.error = ""
    /\ pass' = 2
    /\ first' = [source |-> jmp_data, table |-> table]
    /\ jmp_data' = local_data.buf
    /\ pc' = "Start"
    /\ loc' = NoLoc
    /\ table' = NoTable
    /\ UNCHANGED <<origin, local_data>>
    /\ UNCHANGED prmVars

----------------------------------------------------------------------------
(* The buffers and tables the table codec is run on *)

F_full == JMPFieldHeader({0, 12}, 0..31, 0, 0, JMPType_Int)
F_low  == JMPFieldHeader({1, 12}, 0..3, 0, 0, JMPType_Int)
F_high == JMPFieldHeader({0, 1, 12}, 4..7, 0, 4, JMPType_Int)
F_top  == JMPFieldHeader({2, 12}, 28..31, 0, 28, JMPType_Int)
F_flt  == JMPFieldHeader({0, 2, 12}, {}, 4, 0, JMPType_Flt)
F_str  == JMPFieldHeader({1, 2, 12}, {}, 0, 0, JMPType_Str)
F_bad  == JMPFieldHeader({3, 12}, {}, 0, 0, 9)

Layouts == {<<>>, <<F_full>>, <<F_high>>, <<F_low, F_high>>, <<F_full, F_flt>>,
            <<F_str>>, <<F_bad>>, <<F_full, F_bad>>}

Strides == {0, 4, 8, 32}

\* 0x0000002A, and 0x3FC000F5 (as a float, a little over 1.5)
Fills == {<<0, 0, 0, 42>>, <<63, 192, 0, 245>>}

descriptor_bytes(h) ==
    pack_uint(h.field_hash, 4) \o pack_uint(h.field_bitmask, 4)
    \o pack_uint(BitsOf(h.field_start_byte), 2)
    \o <<h.field_shift_byte, h.field_data_type>>

RECURSIVE descriptor_block(_)
descriptor_block(fields) ==
    IF fields = <<>> THEN <<>>
    ELSE descriptor_bytes(Head(fields)) \o descriptor_block(Tail(fields))

\* The layout of section 6: preamble, descriptors, rows, '@' up to the next
\* multiple of 32.  The preamble declares d.rc rows, d.fc fields and a header
\* block of d.hbs bytes; d.keep = 0 keeps the whole buffer, 1 leaves the
\* padding out, any other value keeps that many bytes.
SourceBuffer(fields, nrows, stride, fill, d) ==
    LET body == pack_sint(d.rc, 4) \o pack_sint(d.fc, 4)
                \o pack_uint(BitsOf(d.hbs), 4) \o pack_uint(BitsOf(stride), 4)
                \o descriptor_block(fields)
                \o [i \in 1..(nrows * stride) |-> fill[((i - 1) % 4) + 1]]
        padded == body \o [i \in 1..((32 - (Len(body) % 32)) % 32) |-> 64]
    IN  IF d.keep = 0 THEN padded
        ELSE IF d.keep = 1 THEN body
        ELSE SubSeq(padded, 1, Min(d.keep, Len(padded)))

Declared(rc, fc, hbs, keep) == [rc |-> rc, fc |-> fc, hbs |-> hbs, keep |-> keep]

\* The well-formed preamble, and each way of getting one thing wrong.
Declarations(nf, nrows) ==
    LET hbs == 16 + JMP_HEADER_SIZE * nf
    IN  {Declared(nrows, nf, hbs, 0)}
        \cup {Declared(nrows, nf, h, 0) : h \in {4, 15, hbs + 1, hbs + 12, 200}}
        \cup {Declared(r, nf, hbs, 0) : r \in {0 - 1, nrows + 1}}
        \cup {Declared(nrows, nf + 1, hbs, 0)}
        \cup {Declared(nrows, nf, hbs, k) : k \in {1, 10, 20}}
        \cup {Declared(nrows, nf, h, 1) : h \in {4, 15}}

Sources ==
    UNION {{SourceBuffer(fields, nrows, stride, fill, d) :
               stride \in Strides, fill \in Fills, d \in Declarations(Len(fields), nrows)} :
           fields \in Layouts, nrows \in 0..MaxRows}

\* The descriptors and rows a caller hands to JMP(...): descriptors of a
\* hashable subclass of JMPFieldHeader, one value per descriptor and row.
Hashable(h) == [h EXCEPT !.hashable = TRUE]

CallerLayouts == {<<>>, <<F_full>>, <<F_high>>, <<F_low, F_high>>, <<F_full, F_flt>>,
                  <<F_str>>, <<F_top>>}

\* 0x05 and 0x2A
CallerInts == {{0, 2}, {1, 3, 5}}

CallerValue(h, v) ==
    CASE h.field_data_type = JMPType_Int -> IntVal(v)
      [] h.field_data_type = JMPType_Str -> StrVal(<<97, 98>>)
      [] OTHER -> FltVal(22..29)

CallerRow(fields, v) ==
    [k \in 1..Len(fields) |-> [key |-> Hashable(fields[k]), val |-> CallerValue(fields[k], v)]]

\* JMP(input_fields, data_entries), called by the user of the library.
NewTable ==
    /\ origin = "init"
    /\ pass = 1
    /\ ~table.made
    /\ \E fields \in CallerLayouts, nrows \in 0..MaxRows, v \in CallerInts :
          table' = JMP_init([k \in 1..Len(fields) |-> Hashable(fields[k])],
                            [r \in 1..nrows |-> CallerRow(fields, v)])
    /\ UNCHANGED <<origin, jmp_data, pc, loc, local_data, pass, first>>
    /\ UNCHANGED prmVars

----------------------------------------------------------------------------
(* The table codec as a system *)

InitJMP ==
    /\ origin \in {"load", "init"}
    /\ IF origin = "load"
       THEN jmp_data \in Sources /\ pc = "Start"
       ELSE jmp_data = <<>> /\ pc = "Idle"
    /\ loc = NoLoc
    /\ table = NoTable
    /\ local_data = NoData
    /\ pass = 1
    /\ first = [source |-> <<>>, table |-> NoTable]
    /\ PRM_data_entries = <<>>
    /\ prm = <<>>
    /\ prm_calls = 0

NextJMP ==
    \/ ReadPreamble
    \/ ValidateHeader
    \/ LoadHeaders
    \/ CheckEntries
    \/ LoadEntry
    \/ ReturnTable
    \/ NewTable
    \/ create_new_jmp
    \/ Reload

SpecJMP == InitJMP /\ [][NextJMP]_vars

----------------------------------------------------------------------------
(* PRM.py: entries and their values *)

\* field_value: bytes (Byte, Number), int (Short), PRMVector (three floats,
\* each the bits of its encoding) or PRMColor (four ints, each its bits).
BytesValue(b) == [kind |-> "bytes", bytes |-> b, int |-> 0, parts |-> <<>>]
IntValue(x) == [kind |-> "int", bytes |-> <<>>, int |-> x, parts |-> <<>>]
PRMVector(first_float, second_float, third_float) ==
    [kind |-> "PRMVector", bytes |-> <<>>, int |-> 0,
     parts |-> <<first_float, second_float, third_float>>]
PRMColor(red, green, blue, opacity) ==
    [kind |-> "PRMColor", bytes |-> <<>>, int |-> 0,
     parts |-> <<red, green, blue, opacity>>]

PRMFieldEntry(entry_hash, name, name_size, entry_type, value) ==
    [field_hash |-> entry_hash, field_name |-> name, field_name_size |-> name_size,
     field_type |-> entry_type, field_value |-> value]

----------------------------------------------------------------------------
(* PRM.load_file *)

\* Lines 116-133: the value of the entry whose type_size field is at
\* current_offset.  The read of type_size leaves the buffer's position at
\* current_offset + 4, where self.data.read(entry_size) continues.
load_payload(data, current_offset, entry_size) ==
    CASE entry_size \in {BitsOf(PRMType_Byte), BitsOf(PRMType_Number)} ->
           [error |-> "",
            value |-> BytesValue(ReadAt(data, current_offset + 4, IntOf(entry_size)))]
      [] entry_size = BitsOf(PRMType_Short) ->
           [error |-> "", value |-> IntValue(read_u16(data, current_offset))]
      [] entry_size = BitsOf(PRMType_Vector) ->
           IF ~CanRead(data, current_offset, 12)
           THEN [error |-> "TruncatedBuffer", value |-> IntValue(0)]
           ELSE [error |-> "",
                 value |-> PRMVector(read_float(data, current_offset),
                                     read_float(data, current_offset + 4),
                                     read_float(data, current_offset + 8))]
      [] entry_size = BitsOf(PRMType_Color) ->
           IF ~CanRead(data, current_offset, 16)
           THEN [error |-> "TruncatedBuffer", value |-> IntValue(0)]
           ELSE [error |-> "",
                 value |-> PRMColor(read_u32(data, current_offset),
                                    read_u32(data, current_offset + 4),
                                    read_u32(data, current_offset + 8),
                                    read_u32(data, current_offset + 12))]
      [] OTHER -> [error |-> "ValueError", value |-> IntValue(0)]

\* Lines 109-135: the loop; data_entries is the list the entries are
\* appended to, and keeps what was appended before a failure.
RECURSIVE load_fields(_, _, _, _)
load_fields(data, remaining, current_offset, data_entries) ==
    IF remaining = 0 THEN [error |-> "", data_entries |-> data_entries]
    ELSE IF ~CanRead(data, current_offset, 4)
    THEN [error |-> "TruncatedBuffer", data_entries |-> data_entries]
    ELSE LET entry_hash == read_u16(data, current_offset)
             entry_name_length == read_u16(data, current_offset + 2)
             entry_name == read_str_until_null_character(data, current_offset + 4,
                                                         entry_name_length)
             size_offset == current_offset + entry_name_length + 4
         IN  IF ~CanRead(data, size_offset, 4)
             THEN [error |-> "TruncatedBuffer", data_entries |-> data_entries]
             ELSE LET entry_size == read_u32(data, size_offset)
                      got == load_payload(data, size_offset, entry_size)
                  IN  IF got.error # ""
                      THEN [error |-> got.error, data_entries |-> data_entries]
                      ELSE load_fields(data, remaining - 1,
                                       size_offset + IntOf(entry_size),
                                       Append(data_entries,
                                              PRMFieldEntry(entry_hash, entry_name,
                                                            entry_name_length,
                                                            IntOf(entry_size), got.value)))

\* Lines 105-135.
load_file_result(data, data_entries) ==
    IF ~CanRead(data, 0, 4)
    THEN [error |-> "TruncatedBuffer", data_entries |-> data_entries]
    ELSE load_fields(data, IntOf(read_u32(data, 0)), 4, data_entries)

----------------------------------------------------------------------------
(* PRM.update_file *)

\* Lines 153-170: the value of one entry, written at current_offset.
update_payload(data, current_offset, prm_entry) ==
    LET val == prm_entry.field_value
    IN  CASE prm_entry.field_type = PRMType_Byte ->
               write_u8(data, current_offset, IntOf(unpack_uint(val.bytes)))
          [] prm_entry.field_type = PRMType_Short ->
               write_u16(data, current_offset, val.int)
          [] prm_entry.field_type = PRMType_Number ->
               write_u32(data, current_offset, unpack_uint(val.bytes))
          [] prm_entry.field_type = PRMType_Vector ->
               write_float(write_float(write_float(data, current_offset, val.parts[1]),
                                       current_offset + 4, val.parts[2]),
                           current_offset + 8, val.parts[3])
          [] prm_entry.field_type = PRMType_Color ->
               write_u32(write_u32(write_u32(write_u32(data, current_offset, val.parts[1]),
                                             current_offset + 4, val.parts[2]),
                                   current_offset + 8, val.parts[3]),
                         current_offset + 12, val.parts[4])
          [] OTHER -> data

\* Lines 148-171: the loop.
RECURSIVE update_fields(_, _, _, _)
update_fields(data, data_entries, k, current_offset) ==
    IF k > Len(data_entries) THEN data
    ELSE LET prm_entry == data_entries[k]
             b1 == write_u16(data, current_offset, prm_entry.field_hash)
             b2 == write_u16(b1, current_offset + 2, prm_entry.field_name_size)
             b3 == write_str(b2, current_offset + 4, prm_entry.field_name,
                             prm_entry.field_name_size, 0)
             value_offset == current_offset + prm_entry.field_name_size + 4
         IN  update_fields(update_payload(b3, value_offset, prm_entry), data_entries,
                           k + 1, value_offset + prm_entry.field_type)

\* Lines 143-171.
update_file_result(data_entries) ==
    update_fields(write_u32(<<>>, 0, BitsOf(Len(data_entries))), data_entries, 1, 4)

----------------------------------------------------------------------------
(* The buffers and entries the parameter codec is run on *)

E_short  == PRMFieldEntry(1, <<104, 112>>, 2, PRMType_Short, IntValue(100))
E_byte   == PRMFieldEntry(7, <<97, 98>>, 2, PRMType_Byte, BytesValue(<<9>>))
E_number == PRMFieldEntry(8, <<110>>, 1, PRMType_Number, BytesValue(<<0, 0, 1, 44>>))
E_vector == PRMFieldEntry(9, <<118>>, 1, PRMType_Vector, PRMVector(22..29, {}, {30}))
E_color  == PRMFieldEntry(10, <<99>>, 1, PRMType_Color,
                          PRMColor(0..7, {7}, {}, 0..31))
E_bad    == PRMFieldEntry(11, <<120>>, 1, 5, BytesValue(<<1, 2, 3, 4, 5>>))

RECURSIVE concat_u32(_)
concat_u32(parts) ==
    IF parts = <<>> THEN <<>> ELSE pack_uint(Head(parts), 4) \o concat_u32(Tail(parts))

payload_bytes(value) ==
    CASE value.kind = "bytes" -> value.bytes
      [] value.kind = "int" -> pack_uint(BitsOf(value.int), 2)
      [] OTHER -> concat_u32(value.parts)

\* The layout of section 6: hash, name_length, name, type_size, payload.
entry_bytes(e) ==
    pack_uint(BitsOf(e.field_hash), 2) \o pack_uint(BitsOf(e.field_name_size), 2)
    \o [i \in 1..e.field_name_size |->
          IF i <= Len(e.field_name) THEN e.field_name[i] ELSE 0]
    \o pack_uint(BitsOf(e.field_type), 4) \o payload_bytes(e.field_value)

RECURSIVE entries_bytes(_)
entries_bytes(entries) ==
    IF entries = <<>> THEN <<>>
    ELSE entry_bytes(Head(entries)) \o entries_bytes(Tail(entries))

prm_buffer(entries) == pack_uint(BitsOf(Len(entries)), 4) \o entries_bytes(entries)

PRMSourceLists ==
    {<<>>, <<E_short>>, <<E_byte>>, <<E_number>>, <<E_vector>>, <<E_color>>, <<E_bad>>,
     <<E_byte, E_short>>, <<E_short, E_byte>>, <<E_number, E_color>>}

\* Well-formed files, a file cut short, and the empty buffer of a caller who
\* builds the parameter set in memory.
PRMSources ==
    {prm_buffer(l) : l \in PRMSourceLists}
    \cup {SubSeq(prm_buffer(<<E_short>>), 1, 9), <<>>}

OtherSources == {prm_buffer(<<E_byte>>), prm_buffer(<<E_number>>)}

CallerEntries == {E_short, E_byte, E_color}

Instances == {1, 2}

\* data: self.data.  The rest records the calls made on the instance: their
\* names, the error the last one raised, the entries the last load_file
\* appended, the entries the last update_file wrote, and whether the
\* instance was constructed over instance 1's buffer (over = 1).
NoPRM == [made |-> FALSE, data |-> <<>>, calls |-> <<>>, error |-> "",
          appended |-> <<>>, written |-> <<>>, over |-> 0]

\* PRM.__init__: only self.data is bound; data_entries stays the class's list.
PRM_init(prm_data, over) == [NoPRM EXCEPT !.made = TRUE, !.data = prm_data, !.over = over]

\* self.data_entries as seen through an instance: no instance ever binds the
\* attribute, so the lookup ends at the class attribute.
data_entries_of(i) == PRM_data_entries

----------------------------------------------------------------------------
(* The parameter codec as a system *)

\* The caller appends an entry of their own to the list.
AddEntry ==
    /\ origin = "prm"
    /\ prm[1].data = <<>>
    /\ prm_calls = 0
    /\ Len(PRM_data_entries) < MaxEntries
    /\ \E e \in CallerEntries : PRM_data_entries' = Append(PRM_data_entries, e)
    /\ UNCHANGED <<prm, prm_calls>>
    /\ UNCHANGED <<origin, jmp_data, pc, loc, table, local_data, pass, first>>

\* PRM(prm_data) for the second instance: over a buffer of its own, or over
\* the buffer the first instance's update_file has just produced.
NewPRM ==
    /\ origin = "prm"
    /\ ~prm[2].made
    /\ \/ \E b \in OtherSources : prm' = [prm EXCEPT ![2] = PRM_init(b, 0)]
       \/ /\ prm[1].calls # <<>>
          /\ prm[1].calls[Len(prm[1].calls)] = "update_file"
          /\ prm' = [prm EXCEPT ![2] = PRM_init(prm[1].data, 1)]
    /\ UNCHANGED <<PRM_data_entries, prm_calls>>
    /\ UNCHANGED <<origin, jmp_data, pc, loc, table, local_data, pass, first>>

load_file(i) ==
    /\ prm[i].made
    /\ prm_calls < MaxCalls
    /\ LET got == load_file_result(prm[i].data, data_entries_of(i))
       IN  /\ PRM_data_entries' = got.data_entries
           /\ prm' = [prm EXCEPT ![i].calls = Append(@, "load_file"),
                                 ![i].error = got.error,
                                 ![i].appended =
                                     SubSeq(got.data_entries, Len(data_entries_of(i)) + 1,
                                            Len(got.data_entries))]
    /\ prm_calls' = prm_calls + 1
    /\ UNCHANGED <<origin, jmp_data, pc, loc, table, local_data, pass, first>>

update_file(i) ==
    /\ prm[i].made
    /\ prm_calls < MaxCalls
    /\ prm' = [prm EXCEPT ![i].data = update_file_result(data_entries_of(i)),
                          ![i].calls = Append(@, "update_file"),
                          ![i].error = "",
                          ![i].written = data_entries_of(i)]
    /\ prm_calls' = prm_calls + 1
    /\ UNCHANGED PRM_data_entries
    /\ UNCHANGED <<origin, jmp_data, pc, loc, table, local_data, pass, first>>

InitPRM ==
    /\ origin = "prm"
    /\ jmp_data = <<>>
    /\ pc = "Idle"
    /\ loc = NoLoc
    /\ table = NoTable
    /\ local_data = NoData
    /\ pass = 1
    /\ first = [source |-> <<>>, table |-> NoTable]
    /\ PRM_data_entries = <<>>
    /\ \E b \in PRMSources : prm = [i \in Instances |-> IF i = 1 THEN PRM_init(b, 0) ELSE NoPRM]
    /\ prm_calls = 0

NextPRM ==
    \/ AddEntry
    \/ NewPRM
    \/ \E i \in Instances : load_file(i)
    \/ \E i \in Instances : update_file(i)

SpecPRM == InitPRM /\ [][NextPRM]_vars

----------------------------------------------------------------------------
(* What the preamble of a table buffer declares *)

DeclaredRows(buf) == read_s32(buf, 0)
DeclaredFields(buf) == read_s32(buf, 4)
DeclaredHeaderSize(buf) == IntOf(read_u32(buf, 8))
DeclaredStride(buf) == IntOf(read_u32(buf, 12))

\* The word of 32 bits at an offset, zero where the buffer ends early.
WordAt(buf, offset) == unpack_uint([i \in 1..4 |-> IF offset + i <= Len(buf)
                                                    THEN buf[offset + i] ELSE 0])

FieldWidth(h) == IF h.field_data_type = JMPType_Str THEN JMP_STRING_BYTE_LENGTH ELSE 4

\* A buffer laid out as section 6 says: a consistent preamble, known type
\* tags, every row inside the buffer and every field inside its row.
ValidSource(buf) ==
    /\ Len(buf) >= 16
    /\ DeclaredRows(buf) >= 0
    /\ DeclaredFields(buf) >= 0
    /\ DeclaredHeaderSize(buf) = 16 + 12 * DeclaredFields(buf)
    /\ DeclaredHeaderSize(buf) + DeclaredStride(buf) * DeclaredRows(buf) <= Len(buf)
    /\ \A k \in 0..(DeclaredFields(buf) - 1) :
          /\ read_u8(buf, 16 + 12 * k + 11) \in {0, 1, 2}
          /\ DeclaredRows(buf) > 0 =>
                read_u16(buf, 16 + 12 * k + 8)
                  + (IF read_u8(buf, 16 + 12 * k + 11) = 1 THEN 32 ELSE 4)
                <= DeclaredStride(buf)

SameDescriptor(g, h) ==
    /\ g.field_hash = h.field_hash
    /\ g.field_bitmask = h.field_bitmask
    /\ g.field_start_byte = h.field_start_byte
    /\ g.field_shift_byte = h.field_shift_byte
    /\ g.field_data_type = h.field_data_type

SameTable(t, u) ==
    /\ Len(t.fields) = Len(u.fields)
    /\ \A k \in 1..Len(t.fields) : SameDescriptor(t.fields[k], u.fields[k])
    /\ Len(t.data_entries) = Len(u.data_entries)
    /\ \A r \in 1..Len(t.data_entries) :
          /\ Len(t.data_entries[r]) = Len(u.data_entries[r])
          /\ \A k \in 1..Len(t.data_entries[r]) :
                /\ SameDescriptor(t.data_entries[r][k].key, u.data_entries[r][k].key)
                /\ t.data_entries[r][k].val = u.data_entries[r][k].val

----------------------------------------------------------------------------
(* C1 *)

\* C1: a valid buffer (any mix of Int, Str and Flt fields, any number of
\* rows) loads into a table T, and loading the buffer T.create_new_jmp()
\* returns yields T's field descriptors, in order, and T's row values.
C1_TableRoundTrip ==
    /\ (origin = "load" /\ pass = 1 /\ ValidSource(jmp_data)) => pc # "Failed"
    /\ (origin = "load" /\ pass = 2 /\ ValidSource(first.source)) =>
          /\ pc # "Failed"
          /\ pc = "Ready" => SameTable(table, first.table)

----------------------------------------------------------------------------
(* C2 *)

HeaderSizeOf(t) == 16 + JMP_HEADER_SIZE * Len(t.fields)

\* Where create_new_jmp writes item k of row r.
WrittenAt(t, r, k) ==
    HeaderSizeOf(t) + (r - 1) * JMP_single_entry_size
    + t.data_entries[r][k].key.field_start_byte

\* No write after that of item k of row r touches the item's word.
LastWrite(t, r, k) ==
    \A r2 \in r..Len(t.data_entries) : \A k2 \in 1..Len(t.data_entries[r2]) :
        (r2 > r \/ k2 > k) =>
            \/ WrittenAt(t, r2, k2) >= WrittenAt(t, r, k) + 4
            \/ WrittenAt(t, r2, k2) + FieldWidth(t.data_entries[r2][k2].key)
                 <= WrittenAt(t, r, k)

\* The word at the item's location before the encode: that of the source
\* buffer for a loaded table, zero for a table built in memory.
ExistingWord(t, r, k) ==
    IF origin = "load"
    THEN WordAt(jmp_data, DeclaredHeaderSize(jmp_data)
                          + (r - 1) * DeclaredStride(jmp_data)
                          + t.data_entries[r][k].key.field_start_byte)
    ELSE {}

\* C2: the word create_new_jmp leaves at the location of an Int item with
\* value v, bitmask m and shift s is (existing_word & ~m) | ((v << s) & m).
C2_BitmaskIsolation ==
    (pass = 1 /\ local_data.made /\ local_data.error = "") =>
        \A r \in 1..Len(table.data_entries) : \A k \in 1..Len(table.data_entries[r]) :
            LET key == table.data_entries[r][k].key
                v == table.data_entries[r][k].val.num
                m == key.field_bitmask
            IN  (key.field_data_type = JMPType_Int /\ LastWrite(table, r, k)) =>
                    WordAt(local_data.buf, WrittenAt(table, r, k))
                      = BitOr(ExistingWord(table, r, k) \ m,
                              BitAnd(Shl(v, key.field_shift_byte), m))

----------------------------------------------------------------------------
(* C3 *)

\* C3: the buffer create_new_jmp returns has a length that is a multiple of
\* 32: the unpadded length L followed by 32 - (L mod 32) bytes '@' when L is
\* no multiple of 32, and by nothing when it is.
C3_PaddingLaw ==
    (pass = 1 /\ local_data.made /\ local_data.error = "") =>
        LET L == Len(unpadded_jmp(table).buf)
        IN  /\ Len(local_data.buf) % 32 = 0
            /\ Len(local_data.buf) = L + ((32 - (L % 32)) % 32)
            /\ \A i \in (L + 1)..Len(local_data.buf) : local_data.buf[i] = 64

----------------------------------------------------------------------------
(* C5 *)

\* The load went as far as decoding rows and has ended.
RowsEnded == pc = "Ready" \/ (pc = "Failed" /\ loc.error = "TypeError")

\* C5: for every Int field (bitmask m, shift s) and every word w at the
\* field's location in a row, the value load_jmp puts in the row is
\* (w & m) >> s.
C5_IntDecode ==
    (origin = "load" /\ pass = 1 /\ ValidSource(jmp_data) /\ RowsEnded) =>
        \A r \in 1..loc.data_entry_count : \A k \in 1..Len(loc.fields) :
            LET h == loc.fields[k]
                at == loc.header_block_size + (r - 1) * loc.single_entry_size
                      + h.field_start_byte
            IN  (h.field_data_type = JMPType_Int /\ CanRead(jmp_data, at, 4)) =>
                    /\ r <= Len(loc.entries)
                    /\ k <= Len(loc.entries[r])
                    /\ loc.entries[r][k].val
                         = IntVal(Shr(BitAnd(read_u32(jmp_data, at), h.field_bitmask),
                                      h.field_shift_byte))

----------------------------------------------------------------------------
(* C6 *)

\* C6: load_jmp fails, and returns no table, whenever header_block_size - 16
\* is no exact multiple of 12, or the multiple differs from field_count, or
\* header_block_size exceeds the length of the buffer.
C6_HeaderRejection ==
    (pass = 1 /\ origin = "load" /\ Len(jmp_data) >= 16
       /\ \/ DeclaredHeaderSize(jmp_data) - 16 # 12 * DeclaredFields(jmp_data)
          \/ DeclaredHeaderSize(jmp_data) > Len(jmp_data))
    => (pc \in {"Start", "PreambleRead", "Failed"} /\ ~table.made)

----------------------------------------------------------------------------
(* C7 *)

\* The steps of load_jmp in their order; a failed load stays failed.
LoadOrder ==
    /\ pc = "Start" => pc' \in {"Start", "PreambleRead", "Failed"}
    /\ pc = "PreambleRead" => pc' \in {"PreambleRead", "HeaderValidated", "Failed"}
    /\ pc = "HeaderValidated" => pc' \in {"HeaderValidated", "FieldsLoaded", "Failed"}
    /\ pc = "FieldsLoaded" => pc' \in {"FieldsLoaded", "EntriesChecked", "Failed"}
    /\ pc = "EntriesChecked" => pc' \in {"EntriesChecked", "Ready", "Failed"}
    /\ pc = "Failed" => (pc' = "Failed" /\ ~table'.made)
    /\ (~table.made /\ table'.made /\ origin = "load") => (pc = "EntriesChecked" /\ pc' = "Ready")

\* The buffer passes the tests load_jmp makes before it decodes rows.
ChecksPassed(buf) ==
    /\ Len(buf) >= 16
    /\ Len(ReadAt(buf, 16, DeclaredHeaderSize(buf) - 16)) = 12 * DeclaredFields(buf)
    /\ DeclaredHeaderSize(buf) <= Len(buf)
    /\ \A k \in 0..(DeclaredFields(buf) - 1) : read_u8(buf, 16 + 12 * k + 11) \in {0, 1, 2}
    /\ DeclaredHeaderSize(buf) + DeclaredStride(buf) * DeclaredRows(buf) <= Len(buf)

\* C7: load_jmp goes through preamble, header validation, descriptors and
\* rows in that order and a failure ends it; it decodes no row of a buffer in
\* which header_block_size + record_stride * row_count exceeds the length,
\* and it returns a table only for a buffer that passes every test.
C7_LoadOrdering ==
    /\ []((origin = "load" /\ (table.made \/ pc = "Ready")) =>
             (pc = "Ready" /\ table.made /\ ChecksPassed(jmp_data)
              /\ Len(table.data_entries) = Max(DeclaredRows(jmp_data), 0)))
    /\ []((loc.entries # <<>> \/ loc.error = "TypeError") =>
             DeclaredHeaderSize(jmp_data) + DeclaredStride(jmp_data) * DeclaredRows(jmp_data)
               <= Len(jmp_data))
    /\ [][LoadOrder
          /\ (LoadEntry =>
                DeclaredHeaderSize(jmp_data) + DeclaredStride(jmp_data) * DeclaredRows(jmp_data)
                  <= Len(jmp_data))]_vars

\* A table of MaxRows rows has been returned for a buffer with a record
\* stride above zero.
C7_Witness ==
    /\ origin = "load" /\ pass = 1 /\ pc = "Ready" /\ table.made
    /\ Len(table.data_entries) = MaxRows
    /\ DeclaredStride(jmp_data) > 0

----------------------------------------------------------------------------
(* C9 *)

\* C9: for a table loaded from a buffer that declares record_stride S,
\* create_new_jmp writes row_count = len(rows), field_count = len(fields),
\* header_block_size = 16 + 12 * len(fields) and record_stride = S, and the
\* value of each field of row i at header_block_size + i * S + start_offset,
\* so the buffer holds len(rows) records of S bytes.
C9_StrideCarriedOver ==
    (origin = "load" /\ pass = 1 /\ ValidSource(jmp_data)
       /\ local_data.made /\ local_data.error = "") =>
        LET out == local_data.buf
            S == DeclaredStride(jmp_data)
        IN  /\ DeclaredRows(out) = Len(table.data_entries)
            /\ DeclaredFields(out) = Len(table.fields)
            /\ DeclaredHeaderSize(out) = 16 + 12 * Len(table.fields)
            /\ DeclaredStride(out) = S
            /\ Len(out) >= HeaderSizeOf(table) + Len(table.data_entries) * S
            /\ \A r \in 1..Len(table.data_entries) : \A k \in 1..Len(table.data_entries[r]) :
                  WrittenAt(table, r, k)
                    = HeaderSizeOf(table) + (r - 1) * S
                      + table.data_entries[r][k].key.field_start_byte

----------------------------------------------------------------------------
(* A parameter buffer read as section 4.3 says *)

\* The payload of type_size bytes, as the value of its variant.
PayloadValue(type_size, payload) ==
    CASE type_size \in {PRMType_Byte, PRMType_Number} -> BytesValue(payload)
      [] type_size = PRMType_Short -> IntValue(IntOf(unpack_uint(payload)))
      [] type_size = PRMType_Vector ->
           PRMVector(unpack_uint(SubSeq(payload, 1, 4)), unpack_uint(SubSeq(payload, 5, 8)),
                     unpack_uint(SubSeq(payload, 9, 12)))
      [] OTHER ->
           PRMColor(unpack_uint(SubSeq(payload, 1, 4)), unpack_uint(SubSeq(payload, 5, 8)),
                    unpack_uint(SubSeq(payload, 9, 12)), unpack_uint(SubSeq(payload, 13, 16)))

\* The entries of a buffer: each payload is the type_size bytes after the
\* type_size field, each entry starts right after the payload before it.
RECURSIVE EntriesIn(_, _, _, _)
EntriesIn(data, remaining, start, acc) ==
    IF remaining = 0 THEN [ok |-> TRUE, entries |-> acc]
    ELSE IF ~CanRead(data, start, 4) THEN [ok |-> FALSE, entries |-> acc]
    ELSE LET name_length == read_u16(data, start + 2)
             size_at == start + 4 + name_length
         IN  IF ~CanRead(data, size_at, 4) THEN [ok |-> FALSE, entries |-> acc]
             ELSE LET type_size == IntOf(read_u32(data, size_at) \cap (0..7))
                      known == read_u32(data, size_at)
                                 \in {BitsOf(t) : t \in {1, 2, 4, 12, 16}}
                  IN  IF ~known \/ ~CanRead(data, size_at + 4, type_size)
                      THEN [ok |-> FALSE, entries |-> acc]
                      ELSE EntriesIn(data, remaining - 1, size_at + 4 + type_size,
                             Append(acc,
                               PRMFieldEntry(read_u16(data, start),
                                             read_str_until_null_character(data, start + 4,
                                                                           name_length),
                                             name_length, type_size,
                                             PayloadValue(type_size,
                                                          ReadAt(data, size_at + 4, type_size)))))

WellFormedPRM(data) ==
    /\ CanRead(data, 0, 4)
    /\ EntriesIn(data, IntOf(read_u32(data, 0)), 4, <<>>).ok

LastCall(i) == IF prm[i].calls = <<>> THEN "" ELSE prm[i].calls[Len(prm[i].calls)]

----------------------------------------------------------------------------
(* C4 *)

\* C4: update_file on a parameter set P, then load_file on the buffer it
\* produced in a fresh PRM instance, yields P: as many entries, in the same
\* order, each with the same hash, name, name_length, type and value.
C4_ParameterRoundTrip ==
    (prm[2].made /\ prm[2].over = 1 /\ prm[2].calls = <<"load_file">>
       /\ LastCall(1) = "update_file" /\ prm[1].data = prm[2].data)
    => (prm[2].error = "" /\ prm[2].appended = prm[1].written)

----------------------------------------------------------------------------
(* C8 *)

\* C8: load_file decodes each payload from the type_size bytes that follow
\* the type_size field (a Short with payload 00 64 is 100) and reads the next
\* entry from the byte after the payload.
C8_PayloadDecode ==
    \A i \in Instances :
        (prm[i].made /\ LastCall(i) = "load_file" /\ WellFormedPRM(prm[i].data))
        => /\ prm[i].error = ""
           /\ prm[i].appended
                = EntriesIn(prm[i].data, IntOf(read_u32(prm[i].data, 0)), 4, <<>>).entries

----------------------------------------------------------------------------
(* C10 *)

\* Only load_file has been called, each instance over a buffer of its own.
OnlyLoads ==
    /\ prm[1].data # <<>>
    /\ PRM_data_entries # <<>> => prm_calls > 0
    /\ \A i \in Instances :
          /\ prm[i].over = 0
          /\ \A c \in 1..Len(prm[i].calls) : prm[i].calls[c] = "load_file"

\* C10: after load_file calls on distinct instances, the data_entries of
\* each instance are the entries decoded from its own buffer, in order.
C10_InstanceIsolation ==
    OnlyLoads =>
        \A i \in Instances :
            (prm[i].made /\ prm[i].calls = <<"load_file">>) =>
                data_entries_of(i) = load_file_result(prm[i].data, <<>>).data_entries

====
